---- MODULE Spec2Model ----
(***************************************************************************)
(* A model of ncman (src/man/main.c): the decompression loader, the troff  *)
(* macro trie, the line scanner troff_parse and the title lexer lex_title. *)
(* Bytes are integers 0..255, buffers are sequences of bytes, offsets are  *)
(* 0-based as in the C code (the byte at offset o of m is m[o + 1]).       *)
(***************************************************************************)
EXTENDS Integers, Sequences, FiniteSets, TLC

VARIABLES
  map,        \* troff_parse: the mapped bytes (mlen is Len(map))
  off,        \* troff_parse: the loop counter
  line,       \* troff_parse: the offset of the pointer "line"
  dom,        \* the pagedom: root, title, section (NULL or <<string>>)
  pc,         \* troff_parse: "idle", "loop", "ok" (returned 0), "fail", "fault"
  err,        \* the message printed before a return of -1
  hist,       \* what troff_parse has done so far (for the properties)
  trie,       \* dom->trie: NULL, or the build whose trie it points to
  table,      \* the name of the table trofftrie() reads (see TableOf)
  charSigned, \* whether plain char is signed in this build
  glen,       \* get_type: the length bound it is given
  gt,         \* get_type: what it returned
  backend,    \* the decompressor the build uses: "libdeflate" or "zlib"
  file,       \* the bytes of the file named by arg
  mm,         \* the memory mappings of the session
  loc,        \* manloop: buf, len, page and bar
  ret         \* manloop: ret

vars == <<map, off, line, dom, pc, err, hist, trie, table, charSigned, glen, gt,
          backend, file, mm, loc, ret>>
loadVars == <<backend, file, mm, loc, ret>>

\* ------------------------------------------------------------ bounds
\* longest content generated after the ".TH" of the first title line
MaxContent == 6
\* longest symbol generated after the leading byte of a classified line
MaxSym == 2

\* ------------------------------------------------- program constants
DOT == 46
NL == 10
QUOTE == 34
NextSlots == 128
MinSize == 18
PgSize == 4096

\* a NULL pointer to a string (a set string is the one-element sequence)
NULL == <<>>

At(m, o) == m[o + 1]

isspace(c) == c \in {9, 10, 11, 12, 13, 32}

\* ------------------------------------------------------- mappings
PageRound(n) == ((n + PgSize - 1) \div PgSize) * PgSize

\* a mapping: how often it was mapped and unmapped, and the bytes still held
NoMap == [maps |-> 0, unmaps |-> 0, held |-> 0]
NoMaps == [buf |-> NoMap, ubuf |-> NoMap]

\* mmap(NULL, len, ...) succeeded: the kernel maps whole pages
Mmap(m, id, len) == [m EXCEPT ![id] = [maps |-> 1, unmaps |-> 0, held |-> PageRound(len)]]

\* munmap(id, len): the kernel unmaps the pages that len covers
Munmap(m, id, len) ==
  [m EXCEPT ![id].unmaps = @ + 1,
            ![id].held = IF @ > PageRound(len) THEN @ - PageRound(len) ELSE 0]

\* manloop's locals before get_troff_data()
NoLocals == [buf |-> "NULL", len |-> 0, page |-> FALSE, bar |-> FALSE]

\* -------------------------------------------------- the decompressor
LE16(n) == <<n % 256, (n \div 256) % 256>>
LE32(n) == <<n % 256, (n \div 256) % 256, (n \div 65536) % 256, (n \div 16777216) % 256>>
FromLE(b) ==
  IF Len(b) = 2 THEN b[1] + 256 * b[2]
  ELSE b[1] + 256 * b[2] + 65536 * b[3] + 16777216 * b[4]

\* the checksum of the gzip trailer (a sum modulo 65521 stands for the CRC-32)
RECURSIVE ByteSum(_, _)
ByteSum(d, i) == IF i > Len(d) THEN 0 ELSE (d[i] + ByteSum(d, i + 1)) % 65521

\* gzip: the 10-byte header, one stored deflate block, the 8-byte trailer
GzHeader == <<31, 139, 8, 0, 0, 0, 0, 0, 0, 3>>
Gzip(d) ==
  GzHeader \o <<1>> \o LE16(Len(d)) \o LE16(65535 - Len(d)) \o d
  \o LE32(ByteSum(d, 1)) \o LE32(Len(d))

\* libdeflate_gzip_decompress() / inflate(Z_FINISH): the whole stream into
\* avail bytes of output.  [ok, out]
Inflate(b, avail) ==
  IF Len(b) < 23 \/ SubSeq(b, 1, 3) # <<31, 139, 8>> \/ b[11] # 1
  THEN [ok |-> FALSE, out |-> <<>>]
  ELSE LET n == FromLE(SubSeq(b, 12, 13))
       IN IF \/ Len(b) # 23 + n
             \/ FromLE(SubSeq(b, 14, 15)) # 65535 - n
             \/ n > avail
          THEN [ok |-> FALSE, out |-> <<>>]
          ELSE LET d == SubSeq(b, 16, 15 + n)
               IN IF \/ FromLE(SubSeq(b, 16 + n, 19 + n)) # ByteSum(d, 1)
                     \/ FromLE(SubSeq(b, 20 + n, 23 + n)) # n
                  THEN [ok |-> FALSE, out |-> <<>>]
                  ELSE [ok |-> TRUE, out |-> d]

\* ------------------------------------------------ map_gzipped_data
\* [ptr, len, mm, bytes, inflated]: the pointer returned ("NULL" or "ubuf"),
\* *len, the mappings, the bytes behind the pointer, and whether the
\* decompressor reported success.
map_gzipped_data_libdeflate(m, b, len, ulen, initOk) ==
  IF ~initOk
  THEN [ptr |-> "NULL", len |-> len, mm |-> Munmap(m, "buf", len), bytes |-> <<>>,
        inflated |-> FALSE]
  ELSE LET r == Inflate(b, ulen)
           m1 == Munmap(m, "buf", len)
       IN IF ~r.ok
          THEN [ptr |-> "NULL", len |-> len, mm |-> m1, bytes |-> <<>>, inflated |-> FALSE]
          ELSE [ptr |-> "ubuf", len |-> ulen, mm |-> m1,
                bytes |-> r.out \o [i \in 1 .. ulen - Len(r.out) |-> 0],
                inflated |-> TRUE]

map_gzipped_data_zlib(m, b, len, ulen, initOk) ==
  IF ~initOk
  THEN [ptr |-> "NULL", len |-> len, mm |-> Munmap(m, "buf", len), bytes |-> <<>>,
        inflated |-> FALSE]
  ELSE LET r == Inflate(b, ulen)
           m1 == Munmap(m, "buf", len)
       IN IF ~r.ok
          THEN [ptr |-> "NULL", len |-> len, mm |-> m1, bytes |-> <<>>, inflated |-> FALSE]
          ELSE [ptr |-> "NULL", len |-> len, mm |-> Munmap(m1, "buf", len),
                bytes |-> <<>>, inflated |-> TRUE]

map_gzipped_data(be, m, b, len, ulen, initOk) ==
  IF be = "libdeflate" THEN map_gzipped_data_libdeflate(m, b, len, ulen, initOk)
  ELSE map_gzipped_data_zlib(m, b, len, ulen, initOk)

\* -------------------------------------------------- map_troff_data
\* env: which calls of the environment succeed
Envs == [fstat : BOOLEAN, mmap1 : BOOLEAN, mmap2 : BOOLEAN, init : BOOLEAN]

LoadFailed(m) == [ptr |-> "NULL", len |-> 0, mm |-> m, bytes |-> <<>>, inflated |-> FALSE]

map_troff_data(be, f, env) ==
  IF ~env.fstat THEN LoadFailed(NoMaps)
  ELSE IF Len(f) < MinSize THEN LoadFailed(NoMaps)
  ELSE IF ~env.mmap1 THEN LoadFailed(NoMaps)
  ELSE LET len == Len(f)
           m1 == Mmap(NoMaps, "buf", len)
       IN IF f[1] = 31 /\ f[2] = 139 /\ f[3] = 8
          THEN LET ulen == FromLE(SubSeq(f, len - 3, len))
               IN IF ~env.mmap2 \/ PageRound(ulen) = 0
                  THEN LoadFailed(Munmap(m1, "buf", len))
                  ELSE LET g == map_gzipped_data(be, Mmap(m1, "ubuf", PageRound(ulen)),
                                                 f, len, ulen, env.init)
                       IN IF g.ptr = "NULL"
                          THEN [g EXCEPT !.mm = Munmap(g.mm, "ubuf", ulen)]
                          ELSE g
          ELSE [ptr |-> "buf", len |-> len, mm |-> m1, bytes |-> f, inflated |-> FALSE]

\* get_troff_data: open(), map_troff_data(), close()
get_troff_data(be, f, openOk, env) ==
  IF ~openOk THEN LoadFailed(NoMaps) ELSE map_troff_data(be, f, env)

\* ------------------------------------------------------ trofftypes
TT(l, s, t) == [ltype |-> l, symbol |-> s, ttype |-> t]

trofftypes ==
  << TT("UNKNOWN", <<>>, "UNKNOWN"),
     TT("COMMENT", <<92, 34>>, "COMMENT"),
     TT("B", <<66>>, "FONT"), TT("BI", <<66, 73>>, "FONT"),
     TT("BR", <<66, 82>>, "FONT"), TT("I", <<73>>, "FONT"),
     TT("IB", <<73, 66>>, "FONT"), TT("IR", <<73, 82>>, "FONT"),
     TT("EE", <<69, 69>>, "STRUCTURE"), TT("EX", <<69, 88>>, "STRUCTURE"),
     TT("RE", <<82, 69>>, "STRUCTURE"), TT("RS", <<82, 83>>, "STRUCTURE"),
     TT("SH", <<83, 72>>, "STRUCTURE"), TT("SS", <<83, 83>>, "STRUCTURE"),
     TT("TH", <<84, 72>>, "STRUCTURE"),
     TT("IP", <<73, 80>>, "PARAGRAPH"), TT("LP", <<76, 80>>, "PARAGRAPH"),
     TT("P", <<80>>, "PARAGRAPH"), TT("PP", <<80, 80>>, "PARAGRAPH"),
     TT("TP", <<84, 80>>, "PARAGRAPH"), TT("TQ", <<84, 81>>, "PARAGRAPH"),
     TT("ME", <<77, 69>>, "HYPERLINK"), TT("MT", <<77, 84>>, "HYPERLINK"),
     TT("UE", <<85, 69>>, "HYPERLINK"), TT("UR", <<85, 82>>, "HYPERLINK"),
     TT("OP", <<79, 80>>, "SYNOPSIS"), TT("SY", <<83, 89>>, "SYNOPSIS"),
     TT("YS", <<89, 83>>, "SYNOPSIS") >>

\* ------------------------------------------------------- trofftrie
\* A trie is [nodes, tt, idx, mem]: nodes are the paths from the root, tt
\* gives each node's descriptor (an index of the table, 0 for NULL), idx are
\* the indices with which a next[] array was accessed, mem the number of
\* allocations that still succeed.
NewNode(tr, n) ==
  [tr EXCEPT !.nodes = tr.nodes \cup {n},
             !.tt = [x \in tr.nodes \cup {n} |-> IF x \in tr.nodes THEN tr.tt[x] ELSE 0],
             !.mem = tr.mem - 1]

\* the two "illegal symbol" tests of the inner loop, for a char c
IllegalSymbolByte(c, sgn) ==
  \/ sgn /\ c >= 128
  \/ c > NextSlots

RECURSIVE InsertSym(_, _, _, _, _)
InsertSym(tr, n, s, i, sgn) ==
  IF i > Len(s) THEN [err |-> "none", tr |-> tr, n |-> n]
  ELSE IF IllegalSymbolByte(s[i], sgn)
       THEN [err |-> "illegal", tr |-> tr, n |-> n]
  ELSE LET us == s[i]
           child == Append(n, us)
           tr1 == [tr EXCEPT !.idx = tr.idx \cup {us}]
       IN IF child \in tr1.nodes
          THEN InsertSym(tr1, child, s, i + 1, sgn)
          ELSE IF tr1.mem = 0
               THEN [err |-> "nomem", tr |-> tr1, n |-> n]
               ELSE InsertSym(NewNode(tr1, child), child, s, i + 1, sgn)

RECURSIVE BuildFrom(_, _, _, _)
BuildFrom(tbl, toff, tr, sgn) ==
  IF toff > Len(tbl) THEN [err |-> "none", tr |-> tr]
  ELSE IF Len(tbl[toff].symbol) = 0
       THEN BuildFrom(tbl, toff + 1, tr, sgn)
  ELSE LET r == InsertSym(tr, <<>>, tbl[toff].symbol, 1, sgn)
       IN IF r.err # "none" THEN [err |-> r.err, tr |-> r.tr]
          ELSE IF r.tr.tt[r.n] # 0 THEN [err |-> "duplicate", tr |-> r.tr]
          ELSE BuildFrom(tbl, toff + 1,
                         [r.tr EXCEPT !.tt[r.n] = toff], sgn)

\* trofftrie(): mem is the number of mallocs that succeed
trofftrie(tbl, sgn, mem) ==
  IF mem = 0
  THEN [err |-> "nomem",
        tr |-> [nodes |-> {}, tt |-> <<>>, idx |-> {}, mem |-> 0]]
  ELSE BuildFrom(tbl, 1,
                 [nodes |-> {<<>>}, tt |-> [x \in {<<>>} |-> 0],
                  idx |-> {}, mem |-> mem - 1],
                 sgn)

\* The tables trofftrie() is run on: the static table, and the static table
\* with one more entry, whose symbol is the table's name here.
ExtraSymbols == {<<128>>, <<255>>, <<90>>, <<84, 72>>}
TableNames == {<<>>} \cup ExtraSymbols
TableOf(name) ==
  IF name = <<>> THEN trofftypes ELSE Append(trofftypes, TT("X", name, "FONT"))

\* the allocations that succeed: none, the root only, all of them
MemCases == {0, 1, 1000}

\* every build: the tries live on the heap, a pointer to one names its build
Builds == TableNames \X BOOLEAN \X MemCases
BuiltHeap == {<<b, trofftrie(TableOf(b[1]), b[2], b[3])>> : b \in Builds}
Built(b) == (CHOOSE p \in BuiltHeap : p[1] = b)[2]

\* the build of the static table, when every allocation succeeds
StdBuild == <<<<>>, TRUE, 1000>>

\* the trie a pointer refers to
TrieAt(b) == Built(b).tr

\* -------------------------------------------------------- get_type
\* the test that guards the index into next[]
IllegalCommandByte(c) == c > NextSlots

\* The walk of get_type from offset ws with len bytes left, at node n.
\* Result: node (table index, 0 for NULL), ws (the offset written back),
\* idx (indices used on next[]), rd (offsets read), ub (an index outside
\* the array was used, at offset ws).
RECURSIVE Walk(_, _, _, _, _, _, _)
Walk(t, m, n, ws, len, idx, rd) ==
  IF len = 0
  THEN [node |-> t.tt[n], ws |-> ws, idx |-> idx, rd |-> rd, ub |-> FALSE]
  ELSE LET c == At(m, ws)
           rd1 == rd \cup {ws}
       IN IF isspace(c) \/ c = 0
          THEN [node |-> t.tt[n], ws |-> ws, idx |-> idx, rd |-> rd1, ub |-> FALSE]
          ELSE IF IllegalCommandByte(c)
          THEN [node |-> 0, ws |-> ws, idx |-> idx, rd |-> rd1, ub |-> FALSE]
          ELSE IF c >= NextSlots
          THEN [node |-> 0, ws |-> ws, idx |-> idx \cup {c}, rd |-> rd1, ub |-> TRUE]
          ELSE IF Append(n, c) \notin t.nodes
          THEN [node |-> 0, ws |-> ws, idx |-> idx \cup {c}, rd |-> rd1, ub |-> FALSE]
          ELSE Walk(t, m, Append(n, c), ws + 1, len - 1, idx \cup {c}, rd1)

get_type(t, m, ws, len) ==
  IF At(m, ws) # DOT
  THEN [node |-> 0, ws |-> ws, idx |-> {}, rd |-> {ws}, ub |-> FALSE]
  ELSE Walk(t, m, <<>>, ws + 1, len - 1, {}, {ws})

\* the end of the run of bytes the loop of get_type can still consume
RECURSIVE RunEnd(_, _, _)
RunEnd(m, ws, len) ==
  IF len = 0 \/ isspace(At(m, ws)) \/ At(m, ws) = 0 THEN ws
  ELSE RunEnd(m, ws + 1, len - 1)

\* What get_type can return.  After an index outside next[] the node pointer
\* is garbage: the loop returns NULL at any byte of the run, or reaches the
\* end of the run and returns any descriptor, or the process faults.
GetTypeOutcomes(t, m, ws, len) ==
  LET g == get_type(t, m, ws, len)
  IN IF ~g.ub
     THEN {[node |-> g.node, ws |-> g.ws, fault |-> FALSE, ub |-> FALSE,
            idx |-> g.idx, rd |-> g.rd]}
     ELSE LET e == RunEnd(m, g.ws, len - (g.ws - ws))
          IN {[node |-> 0, ws |-> w, fault |-> FALSE, ub |-> TRUE,
               idx |-> g.idx, rd |-> g.rd] : w \in g.ws .. e}
             \cup {[node |-> k, ws |-> e, fault |-> FALSE, ub |-> TRUE,
                    idx |-> g.idx, rd |-> g.rd] : k \in 1 .. Len(trofftypes)}
             \cup {[node |-> 0, ws |-> g.ws, fault |-> TRUE, ub |-> TRUE,
                    idx |-> g.idx, rd |-> g.rd]}

\* ------------------------------------------------------- lex_title
\* the char at 1-based index i of a NUL-terminated string
Ch(text, i) == IF i <= Len(text) THEN text[i] ELSE 0

RECURSIVE SkipSpace(_, _)
SkipSpace(text, i) == IF isspace(Ch(text, i)) THEN SkipSpace(text, i + 1) ELSE i

\* the loop "while(*endtok)" of lex_title: where it stops, and quoted there
RECURSIVE ScanTok(_, _, _)
ScanTok(text, e, quoted) ==
  IF Ch(text, e) = 0 THEN [e |-> e, quoted |-> quoted]
  ELSE IF ~quoted
       THEN IF isspace(Ch(text, e)) THEN [e |-> e, quoted |-> FALSE]
            ELSE IF Ch(text, e) = QUOTE THEN [e |-> e, quoted |-> TRUE]
            ELSE ScanTok(text, e + 1, quoted)
       ELSE IF Ch(text, e) = QUOTE THEN [e |-> e, quoted |-> FALSE]
            ELSE ScanTok(text, e + 1, quoted)

\* strndup(s + from - 1, n) inside a NUL-terminated string; NULL when the
\* allocation fails
StrDup(text, from, n, ok) == IF ok THEN <<SubSeq(text, from, from + n - 1)>> ELSE NULL

\* lex_title(dom): [rc, err, dom, oom].  mem names the allocation that fails,
\* oom tells whether it was reached.
lex_title(d, mem) ==
  LET text == d.root[1][1]
      t0 == SkipSpace(text, 1)
      q0 == Ch(text, t0) = QUOTE
      tok == IF q0 THEN t0 + 1 ELSE t0
  IN IF Ch(text, tok) = 0 THEN [rc |-> -1, err |-> "title", dom |-> d, oom |-> FALSE]
     ELSE
     LET s1 == ScanTok(text, tok + 1, q0)
     IN IF Ch(text, s1.e) = 0
        THEN [rc |-> -1, err |-> "title", dom |-> d, oom |-> FALSE]
        ELSE
        LET dom1 == [d EXCEPT !.title = StrDup(text, tok, s1.e - tok, mem # "title")]
            tok2 == s1.e + 1
        IN IF Ch(text, tok2) = 0 THEN [rc |-> -1, err |-> "section", dom |-> dom1, oom |-> mem = "title"]
           ELSE
           LET t3 == IF ~s1.quoted THEN SkipSpace(text, tok2) ELSE tok2
               q3 == IF ~s1.quoted THEN Ch(text, t3) = QUOTE ELSE TRUE
               tok3 == IF ~s1.quoted /\ q3 THEN t3 + 1 ELSE t3
           IN IF Ch(text, tok3) = 0 THEN [rc |-> -1, err |-> "section", dom |-> dom1, oom |-> mem = "title"]
              ELSE
              LET s2 == ScanTok(text, tok3 + 1, q3)
              IN IF Ch(text, s2.e) = 0
                 THEN [rc |-> -1, err |-> "section", dom |-> dom1, oom |-> mem = "title"]
                 ELSE [rc |-> 0, err |-> "none", oom |-> mem \in {"title", "section"},
                       dom |-> [dom1 EXCEPT !.section =
                                  StrDup(text, tok3, s2.e - tok3, mem # "section")]]

\* ----------------------------------------------------- troff_parse
\* a getter that reads the wrong field of the pagedom
dom_get_title_version(d) == d.version

dom_get_title(d) == d.title

\* a scan that also takes a space for the end of the line
RECURSIVE ScanEol_space(_, _, _)
ScanEol_space(m, eol, left) ==
  IF left # 0 /\ At(m, eol) # NL /\ At(m, eol) # 0 /\ At(m, eol) # 32
  THEN ScanEol_space(m, eol + 1, left - 1)
  ELSE eol

\* "find the end of this line": the offset where the scan from ws stops
RECURSIVE ScanEol(_, _, _)
ScanEol(m, eol, left) ==
  IF left # 0 /\ At(m, eol) # NL /\ At(m, eol) # 0
  THEN ScanEol(m, eol + 1, left - 1)
  ELSE eol

\* "functional end of line--doesn't include possible newline"
Feol(m, eol, left) == IF left # 0 /\ At(m, eol) = NL THEN eol - 1 ELSE eol

\* the "bogus empty title" test
EmptyTitle(ws, feol) == ws = feol \/ ws + 1 = feol

\* the offset of the first NUL at or after offset o, Len(map) when there is none
RECURSIVE NulFrom(_, _)
NulFrom(m, o) ==
  IF o >= Len(m) THEN Len(m)
  ELSE IF At(m, o) = 0 THEN o ELSE NulFrom(m, o + 1)

\* what memory past the end of the mapping may hold, up to its first NUL
Beyond == {<<>>, <<32>>, <<QUOTE>>, <<97, 32>>}

\* strndup((const char*)map + from, n) on the mapping: n is converted to
\* size_t, so a negative n bounds nothing; the copy stops at a NUL.  A copy
\* that runs off the mapping reads whatever follows it, or faults.
\* Result: a set of [text, oob, fault].
StrnDupMap(m, from, n) ==
  LET nul == NulFrom(m, from)
      stop == IF n < 0 THEN nul ELSE IF from + n < nul THEN from + n ELSE nul
      inside == SubSeq(m, from + 1, stop)
  IN IF n >= 0 \/ nul < Len(m)
     THEN {[text |-> inside, oob |-> FALSE, fault |-> FALSE]}
     ELSE {[text |-> inside \o b, oob |-> TRUE, fault |-> FALSE] : b \in Beyond}
          \cup {[text |-> <<>>, oob |-> TRUE, fault |-> TRUE]}

\* the allocation outcomes of one pass over a title line
MemChoices == {"ok", "root", "text", "title", "section"}

THIndex == CHOOSE i \in 1 .. Len(trofftypes) : trofftypes[i].ltype = "TH"

\* One iteration of the for loop of troff_parse, for every outcome of the
\* environment.  Each result is [rc, err, off, line, dom, ev] where rc is
\* "next" (the loop goes on), "fail" (return -1) or "fault", and ev records
\* what the iteration did.
ParseLine(t, m, o, l, d) ==
  LET mlen == Len(m)
      left0 == mlen - o
  IN UNION {
     LET ws == g.ws
         left1 == left0 - (ws - l)
         eol == ScanEol(m, ws, left1)
         left2 == left1 - (eol - ws)
         feol == Feol(m, eol, left2)
         isTH == g.node # 0 /\ trofftypes[g.node].ltype = "TH"
         ev0 == [at |-> l, th |-> isTH, hadTitle |-> dom_get_title(d) # NULL,
                 ub |-> g.ub, idx |-> g.idx, ws |-> ws, eol |-> eol, feol |-> feol,
                 copied |-> FALSE, copyLen |-> 0, oob |-> FALSE, lexed |-> FALSE,
                 oom |-> FALSE]
         next == [rc |-> "next", err |-> "none", off |-> o + (eol - l) + 1,
                  line |-> eol + 1, dom |-> d, ev |-> ev0]
         stop(rc, e, dd, ev) == [rc |-> rc, err |-> e, off |-> o, line |-> l,
                                 dom |-> dd, ev |-> ev]
     IN IF g.fault THEN {stop("fault", "none", d, ev0)}
        ELSE IF ~isTH THEN {next}
        ELSE IF dom_get_title(d) # NULL THEN {stop("fail", "duplicate", d, ev0)}
        ELSE IF EmptyTitle(ws, feol) THEN {stop("fail", "empty", d, ev0)}
        ELSE UNION {
          IF mem = "root" THEN {stop("fail", "nomem", d, [ev0 EXCEPT !.oom = TRUE])}
          ELSE UNION {
            LET ev1 == [ev0 EXCEPT !.copied = TRUE, !.copyLen = feol - (ws + 1),
                                   !.oob = c.oob]
                dom1 == [d EXCEPT !.root = << <<c.text>> >>]
            IN IF c.fault THEN {stop("fault", "none", d, ev1)}
               ELSE IF mem = "text"
               THEN {stop("fail", "nomem", [d EXCEPT !.root = <<NULL>>],
                          [ev1 EXCEPT !.oom = TRUE])}
               ELSE LET lx == lex_title(dom1, mem)
                        ev2 == [ev1 EXCEPT !.oom = lx.oom]
                    IN IF lx.rc # 0 THEN {stop("fail", lx.err, lx.dom, ev2)}
                       ELSE {[next EXCEPT !.dom = lx.dom,
                                          !.ev = [ev2 EXCEPT !.lexed = TRUE]]}
            : c \in StrnDupMap(m, ws + 1, feol - (ws + 1)) }
          : mem \in MemChoices }
     : g \in GetTypeOutcomes(TrieAt(t), m, l, left0) }

\* the whole of troff_parse: the set of [rc, err, dom] it can return
RECURSIVE TroffRun(_, _, _, _, _)
TroffRun(tr, m, o, l, d) ==
  IF o >= Len(m)
  THEN IF dom_get_title(d) = NULL
       THEN {[rc |-> "fail", err |-> "notitle", dom |-> d]}
       ELSE {[rc |-> "ok", err |-> "none", dom |-> d]}
  ELSE UNION { IF r.rc = "next" THEN TroffRun(tr, m, r.off, r.line, r.dom)
               ELSE {[rc |-> r.rc, err |-> r.err, dom |-> r.dom]}
               : r \in ParseLine(tr, m, o, l, d) }

troff_parse(m, d, tr) == TroffRun(tr, m, 0, 0, d)

\* pagedom dom = {}
EmptyDom == [root |-> NULL, title |-> NULL, section |-> NULL, version |-> NULL]

NoHist == [classified |-> <<>>, thSeen |-> 0, lexOk |-> 0, oom |-> FALSE,
           ub |-> FALSE, last |-> <<>>, tidx |-> {}]

\* ------------------------------------------- the buffers of SpecParse
TH == <<DOT, 84, 72>>
\* space, quote, 'a', '1'
Alphabet == {32, QUOTE, 97, 49}
\* what follows the TH symbol: any bytes short of MaxContent, and a space
\* followed by any MaxContent - 1 bytes
Texts == UNION {[1 .. n -> Alphabet] : n \in 0 .. MaxContent - 1}
Contents == Texts \cup {<<32>> \o c : c \in [1 .. MaxContent - 1 -> Alphabet]}
\* what precedes the first title line: nothing, ".SH a\n", "a\0a\n",
\* ".B\x80 \n"
PreLines == {<<>>, <<DOT, 83, 72, 32, 97, NL>>, <<97, 0, 97, NL>>,
             <<DOT, 66, 128, 32, NL>>}
\* what follows the content of the first title line: end of buffer, "\n",
\* "\n.SH aaaaa\n", "\n\"a\" 1 \0", "\n.TH a 1  \n", "\n.TH\n", "\n.TH \"a\n"
Tails == {<<>>, <<NL>>, <<NL, DOT, 83, 72, 32, 97, 97, 97, 97, 97, NL>>,
          <<NL, QUOTE, 97, QUOTE, 32, 49, 32, 0>>,
          <<NL>> \o TH \o <<32, 97, 32, 49, 32, 32, NL>>,
          <<NL>> \o TH \o <<NL>>,
          <<NL>> \o TH \o <<32, QUOTE, 97, NL>>}
\* the tails that also follow a title line that is not the first line
ShortTails == {<<>>, <<NL, DOT, 83, 72, 32, 97, 97, 97, 97, 97, NL>>,
               <<NL>> \o TH \o <<32, 97, 32, 49, 32, 32, NL>>}
Buffers ==
  {TH \o c \o t : c \in Contents, t \in Tails}
  \cup {p \o TH \o c \o t : p \in PreLines \ {<<>>}, c \in Texts, t \in ShortTails}
  \cup (PreLines \ {<<>>})

\* -------------------------------------------------------- SpecParse
InitParse ==
  /\ map \in Buffers
  /\ off = 0
  /\ line = 0
  /\ dom = EmptyDom
  /\ pc = "loop"
  /\ err = "none"
  /\ hist = NoHist
  /\ trie = StdBuild
  /\ table = <<>>
  /\ charSigned = TRUE
  /\ glen = 0
  /\ gt = <<>>
  /\ backend = "libdeflate"
  /\ file = <<>>
  /\ mm = NoMaps
  /\ loc = NoLocals
  /\ ret = -1

\* one pass of the body of the for loop
ParseLineStep ==
  /\ pc = "loop"
  /\ off < Len(map)
  /\ \E r \in ParseLine(trie, map, off, line, dom) :
       /\ pc' = IF r.rc = "next" THEN "loop" ELSE r.rc
       /\ err' = r.err
       /\ off' = r.off
       /\ line' = r.line
       /\ dom' = r.dom
       /\ hist' = [classified |-> Append(hist.classified, r.ev.at),
                   thSeen |-> hist.thSeen + (IF r.ev.th THEN 1 ELSE 0),
                   lexOk |-> hist.lexOk + (IF r.ev.lexed THEN 1 ELSE 0),
                   oom |-> hist.oom \/ r.ev.oom,
                   ub |-> hist.ub \/ r.ev.ub \/ r.ev.oob,
                   tidx |-> hist.tidx,
                   last |-> <<r.ev>>]
  /\ UNCHANGED <<map, trie, table, charSigned, glen, gt, loadVars>>

\* the loop is over: the "no title found" test and the return
ParseEnd ==
  /\ pc = "loop"
  /\ off >= Len(map)
  /\ IF dom_get_title(dom) = NULL
     THEN pc' = "fail" /\ err' = "notitle"
     ELSE pc' = "ok" /\ err' = "none"
  /\ UNCHANGED <<map, off, line, dom, hist, trie, table, charSigned, glen, gt, loadVars>>

NextParse == ParseLineStep \/ ParseEnd

SpecParse == InitParse /\ [][NextParse]_vars

\* ------------------------------------------ properties of troff_parse
\* the offsets at which a line starts when lines end at '\n' only
NlStarts(m) == {p \in 0 .. Len(m) - 1 : p = 0 \/ m[p] = NL}

\* the line that starts at offset p, without its newline
NlLine(m, p) ==
  LET e == CHOOSE q \in p .. Len(m) :
             /\ q = Len(m) \/ m[q + 1] = NL
             /\ \A r \in p .. q - 1 : m[r + 1] # NL
  IN SubSeq(m, p + 1, e)

\* a line that starts with the TH macro
IsTitleLine(l) ==
  /\ Len(l) >= 3
  /\ SubSeq(l, 1, 3) = TH
  /\ Len(l) = 3 \/ isspace(l[4]) \/ l[4] = 0

NlTitleStarts(m) == {p \in NlStarts(m) : IsTitleLine(NlLine(m, p))}

\* the offsets at which a line starts when a NUL ends a line as well
CodeLineStarts(m) == {p \in 0 .. Len(m) - 1 : p = 0 \/ m[p] \in {NL, 0}}

Returned == pc \in {"ok", "fail"}

IsGzipMagic(m) == Len(m) >= 3 /\ m[1] = 31 /\ m[2] = 139 /\ m[3] = 8

\* .TH "a" 1
TitleLine1 == TH \o <<32, QUOTE, 97, QUOTE, 32, 49>>

\* C1: a plain buffer of at least 18 bytes with exactly one title line
\* .TH "a" 1 (anywhere, ended by a newline or by the end of the buffer) is
\* parsed successfully, with title "a" and section "1".
C1_RoundTrip ==
  LET ts == NlTitleStarts(map)
  IN (/\ Returned
      /\ ~hist.oom /\ ~hist.ub
      /\ Len(map) >= MinSize /\ ~IsGzipMagic(map)
      /\ Cardinality(ts) = 1
      /\ \A p \in ts : NlLine(map, p) = TitleLine1)
     => (pc = "ok" /\ dom.title = <<<<97>>>> /\ dom.section = <<<<49>>>>)

\* the token grammar of the title line: a token is a double-quoted span or
\* a run of characters up to whitespace, a quote or the end of the text
RECURSIVE TokEnd(_, _, _)
TokEnd(text, i, quoted) ==
  IF i > Len(text) THEN i
  ELSE IF quoted THEN IF text[i] = QUOTE THEN i ELSE TokEnd(text, i + 1, quoted)
  ELSE IF isspace(text[i]) \/ text[i] = QUOTE THEN i
  ELSE TokEnd(text, i + 1, quoted)

GrammarTok(text, i) ==
  LET j == SkipSpace(text, i)
  IN IF j > Len(text) THEN [ok |-> FALSE, tok |-> <<>>, next |-> j]
     ELSE IF text[j] = QUOTE
     THEN LET k == TokEnd(text, j + 1, TRUE)
          IN [ok |-> k <= Len(text), tok |-> SubSeq(text, j + 1, k - 1), next |-> k + 1]
     ELSE LET k == TokEnd(text, j, FALSE)
          IN [ok |-> TRUE, tok |-> SubSeq(text, j, k - 1), next |-> k]

GrammarTitle(text) ==
  LET t1 == GrammarTok(text, 1)
      t2 == GrammarTok(text, t1.next)
  IN IF ~t1.ok THEN [err |-> "title", title |-> <<>>, section |-> <<>>]
     ELSE IF ~t2.ok THEN [err |-> "section", title |-> t1.tok, section |-> <<>>]
     ELSE [err |-> "none", title |-> t1.tok, section |-> t2.tok]

\* the last pass of the loop handed a root text to lex_title
Lexed ==
  /\ hist.last # <<>>
  /\ hist.last[1].copied
  /\ ~hist.oom /\ ~hist.ub
  /\ pc # "fault"

\* C5: lex_title extracts the first token as title and the second as
\* section, whatever follows the second token (including nothing); a quoted
\* token ends at its matching quote; an unterminated first token is the
\* title-extraction error, a missing or unterminated second token the
\* section-extraction error.
C5_Quoting ==
  Lexed =>
    LET x == GrammarTitle(dom.root[1][1])
    IN IF x.err = "none"
       THEN /\ hist.last[1].lexed
            /\ dom.title = <<x.title>>
            /\ dom.section = <<x.section>>
       ELSE pc = "fail" /\ err = x.err

\* C7: the title is set if and only if a title line has been lexed
\* successfully (title and section both extracted), in every state, and
\* troff_parse returns success only with the title set.
C7_TitleIffLexed ==
  (~hist.oom /\ ~hist.ub) =>
    /\ (dom.title # NULL) <=> (hist.lexOk >= 1)
    /\ pc = "ok" => dom.title # NULL

\* C8: on the first title line, a content span (after the symbol, without
\* the trailing newline) that is empty or one character gives the
\* empty-title error and no copy; otherwise the copy has a non-negative
\* length and stays inside the line.
C8_EmptyTitle ==
  (/\ hist.last # <<>>
   /\ hist.last[1].th /\ ~hist.last[1].hadTitle /\ ~hist.last[1].ub
   /\ ~hist.oom
   /\ pc # "fault") =>
    LET e == hist.last[1]
    IN IF e.eol - e.ws <= 1
       THEN pc = "fail" /\ err = "empty" /\ ~e.copied
       ELSE e.copied => (e.copyLen >= 0 /\ e.ws + 1 + e.copyLen <= e.eol)

\* C3 as stated: a buffer with two title lines fails with the
\* duplicate-title error, whatever the two lines hold.
C3_DuplicateAlways ==
  (Returned /\ ~hist.oom /\ ~hist.ub /\ Cardinality(NlTitleStarts(map)) >= 2)
    => (pc = "fail" /\ err = "duplicate")

\* C3 (amended): with two title lines in the buffer, the duplicate-title
\* error is reported exactly when a title is already recorded at the title
\* line that is reached; with no allocation failure troff_parse returns
\* failure, which is the duplicate-title error exactly when lex_title
\* succeeded on the first title line reached, and otherwise the error of that
\* first title line (empty title, title or section extraction), after which
\* no later title line is examined.
C3_Duplicate ==
  (Returned /\ Cardinality(NlTitleStarts(map)) >= 2) =>
    /\ (err = "duplicate") <=>
         (pc = "fail" /\ hist.last[1].th /\ hist.last[1].hadTitle)
    /\ err = "duplicate" => hist.lexOk >= 1 /\ hist.thSeen >= 2
    /\ ~hist.oom =>
         /\ pc = "fail"
         /\ (err = "duplicate") <=> (hist.lexOk = 1)
         /\ err # "duplicate" =>
              /\ err \in {"empty", "title", "section"}
              /\ hist.thSeen = 1
              /\ hist.lexOk = 0

\* the second title line is reached after the first was lexed
C3_Witness ==
  /\ pc = "fail" /\ err = "duplicate"
  /\ ~hist.oom /\ ~hist.ub
  /\ Cardinality(NlTitleStarts(map)) = 2
  /\ hist.lexOk = 1 /\ hist.thSeen = 2

\* the positions classified so far are the first line starts, in order
ClassifiedAre(starts) ==
  LET c == hist.classified
  IN /\ \A i \in 1 .. Len(c) : c[i] \in starts
     /\ Len(c) > 0 => c[1] = 0
     /\ \A i \in 2 .. Len(c) :
          /\ c[i - 1] < c[i]
          /\ \A q \in starts : ~(c[i - 1] < q /\ q < c[i])
     /\ (pc = "ok" \/ (pc = "fail" /\ err = "notitle")) =>
          \A q \in starts : \E i \in 1 .. Len(c) : c[i] = q

\* the loop counter follows the line pointer and bounds the passes
OffIsLine ==
  /\ off = line
  /\ Len(hist.classified) <= off + (IF pc = "loop" THEN 0 ELSE 1)
  /\ off <= Len(map) + 1
  /\ (pc = "loop" /\ off < Len(map)) => off \in CodeLineStarts(map)

\* C9 as stated: lines end at '\n' or at the end of the buffer only, and
\* every such line is classified once.
C9_NewlineOnly == OffIsLine /\ ClassifiedAre(NlStarts(map))

\* C9 (amended): troff_parse ends after at most mlen passes; off is the
\* offset of the current line; every classified position is offset 0 or
\* one byte past a '\n' or a NUL byte, and every such position is classified
\* exactly once, in order, until troff_parse returns.
C9_LineStarts == OffIsLine /\ ClassifiedAre(CodeLineStarts(map))

\* a line that a NUL ended has been classified, and the parse succeeded
C9_Witness ==
  /\ pc = "ok"
  /\ \E i \in 1 .. Len(hist.classified) :
       /\ hist.classified[i] > 0
       /\ map[hist.classified[i]] = 0
  /\ Len(hist.classified) >= 3

\* --------------------------------------------------------- SpecTrie
\* the bytes of the classified lines: the letters of the table's symbols,
\* 'Z', and the bytes 128 and 255
SymAlphabet == {92, QUOTE, 66, 73, 82, 69, 88, 83, 72, 84, 80, 76, 81, 77, 85,
                79, 89, 90, 128, 255}
Symbols ==
  UNION {[1 .. n -> SymAlphabet] : n \in 0 .. MaxSym}
  \cup {trofftypes[i].symbol \o <<c>> : i \in 2 .. Len(trofftypes), c \in {88, 128, 255}}
\* what follows the symbol: nothing, " a", "\n", a NUL
SymEnds == {<<>>, <<32, 97>>, <<NL>>, <<0>>}
TrieLines ==
  {<<DOT>> \o y \o e : y \in Symbols, e \in SymEnds}
  \cup {<<97>> \o y \o <<32>> : y \in {<<>>, <<84, 72>>}}

\* the state after trofftrie() has built the trie of the static table
InitTrie ==
  /\ table = <<>>
  /\ charSigned \in BOOLEAN
  /\ map \in TrieLines
  /\ glen \in 1 .. Len(map)
  /\ pc = "built"
  /\ trie = <<table, charSigned, 1000>>
  /\ gt = <<>>
  /\ err = "none"
  /\ off = 0
  /\ line = 0
  /\ dom = EmptyDom
  /\ hist = [NoHist EXCEPT !.tidx = TrieAt(<<table, charSigned, 1000>>).idx]
  /\ backend = "libdeflate"
  /\ file = <<>>
  /\ mm = NoMaps
  /\ loc = NoLocals
  /\ ret = -1

\* node = get_type(trie, &ws, len) on the line at offset 0
GetType ==
  /\ pc = "built"
  /\ \E g \in GetTypeOutcomes(TrieAt(trie), map, 0, glen) :
       /\ gt' = <<g>>
       /\ pc' = IF g.fault THEN "fault" ELSE "typed"
  /\ UNCHANGED <<map, off, line, dom, err, hist, trie, table, charSigned, glen, loadVars>>

\* The next session: dom.trie = trofftrie(), on a table that may hold one
\* more symbol.  A store through next[] outside the array overwrites the
\* node's own descriptor or the heap: the build then ends any way, or faults.
BuildTrie ==
  /\ pc \in {"typed", "nobuild"}
  /\ table' \in TableNames
  /\ \E mem \in MemCases :
       LET b == <<table', charSigned, mem>>
           r == Built(b)
           ub == \E i \in r.tr.idx : i >= NextSlots
       IN /\ hist' = [hist EXCEPT !.ub = ub, !.tidx = r.tr.idx, !.oom = r.err = "nomem"]
          /\ IF ub
             THEN \/ pc' = "built" /\ trie' = b /\ err' = "none"
                  \/ pc' = "nobuild" /\ trie' = NULL /\ err' \in {"illegal", "duplicate"}
                  \/ pc' = "fault" /\ trie' = NULL /\ err' = "none"
             ELSE IF r.err = "none"
             THEN pc' = "built" /\ trie' = b /\ err' = "none"
             ELSE pc' = "nobuild" /\ trie' = NULL /\ err' = r.err
  /\ gt' = <<>>
  /\ UNCHANGED <<map, off, line, dom, charSigned, glen, loadVars>>

NextTrie == GetType \/ BuildTrie

SpecTrie == InitTrie /\ [][NextTrie]_vars

\* the run of bytes after the leading byte that get_type may consume as a
\* symbol: up to whitespace, a NUL or the length bound
SymbolRun(m, len) == SubSeq(m, 2, RunEnd(m, 1, len - 1))

\* the descriptor of the table whose symbol is y, 0 when there is none
DescriptorOf(tbl, y) ==
  IF \E i \in 1 .. Len(tbl) : tbl[i].symbol = y /\ y # <<>>
  THEN CHOOSE i \in 1 .. Len(tbl) : tbl[i].symbol = y
  ELSE 0

\* what classify is to return for the line in map
Classified ==
  IF map[1] # DOT THEN 0 ELSE DescriptorOf(TableOf(table), SymbolRun(map, glen))

\* C6: with the trie of the static table, get_type returns the descriptor
\* of the symbol that follows the '.', for every registered symbol, and no
\* match for every other symbol and for a line that does not start with '.'.
C6_Classify ==
  (pc = "typed" /\ gt # <<>> /\ table = <<>>) => gt[1].node = Classified

\* the same, for the lines whose symbol holds bytes 0..127 only
AsciiClassify ==
  (/\ pc \in {"typed", "fault"} /\ gt # <<>> /\ table = <<>>
   /\ \A i \in 1 .. Len(SymbolRun(map, glen)) : SymbolRun(map, glen)[i] < NextSlots)
    => (pc = "typed" /\ gt[1].node = Classified)

\* C10: get_type reads inside its length bound, indexes next[] with 0..127
\* only and returns no match on a symbol byte outside 0..127; trofftrie
\* indexes next[] with 0..127 only and rejects a symbol with a byte outside
\* 0..127 as illegal.
C10_Bounds ==
  /\ (pc \in {"typed", "fault"} /\ ~hist.ub) =>
       /\ pc = "typed"
       /\ gt[1].rd \subseteq 0 .. glen - 1
       /\ gt[1].idx \subseteq 0 .. NextSlots - 1
       /\ (map[1] = DOT /\ \E i \in 1 .. Len(SymbolRun(map, glen)) :
                              SymbolRun(map, glen)[i] >= NextSlots)
            => gt[1].node = 0
  /\ (pc \in {"built", "nobuild", "fault"} /\ gt = <<>>) =>
       /\ hist.tidx \subseteq 0 .. NextSlots - 1
       /\ ((\E i \in 1 .. Len(table) : table[i] >= NextSlots) /\ ~hist.oom)
            => (pc = "nobuild" /\ err = "illegal")


\* --------------------------------------------------------- SpecLoad
\* the documents of the sessions
Para == <<DOT, 83, 72, 32, 97, 97, 97, 97, 97, 97, 97, 97, 97, 97, NL>>
Docs ==
  {Para \o TH \o <<32, 97, 32, 49, 32, 32, NL>>,
   Para \o TH \o <<32, 97, 32, 49, 32>>,
   TH \o <<32, QUOTE, 97, 32, 97, QUOTE, 32, QUOTE, 49, QUOTE, NL>> \o Para,
   Para \o TH \o <<32, 97, 32, 49>>,
   Para \o Para,
   Para \o TH \o <<NL>>}

\* the documents that parse as plain text
ValidDocs ==
  {d \in Docs : \E r \in troff_parse(d, EmptyDom, StdBuild) : r.rc = "ok"}

\* a gzip file with a damaged checksum
Damaged(g) == [g EXCEPT ![Len(g) - 4] = (@ + 1) % 256]

Files ==
  Docs \cup {Gzip(d) : d \in Docs}
  \cup {Damaged(Gzip(d)) : d \in ValidDocs}
  \cup {Gzip(<<>>), SubSeq(Para \o Para, 1, MinSize - 1), SubSeq(Para \o Para, 1, MinSize)}

\* the history of a session: whether every call of the environment
\* succeeded, whether the decompressor reported success, what the loader
\* returned and what the parse left
NoLoad == [env |-> <<>>, inflated |-> FALSE, loaded |-> <<>>, parsed |-> <<>>]

\* manloop is entered with the file named by arg
InitLoad ==
  /\ backend \in {"libdeflate", "zlib"}
  /\ charSigned \in BOOLEAN
  /\ file \in Files
  /\ mm = NoMaps
  /\ loc = NoLocals
  /\ ret = -1
  /\ pc = "start"
  /\ map = <<>>
  /\ off = 0
  /\ line = 0
  /\ dom = EmptyDom
  /\ err = "none"
  /\ hist = NoLoad
  /\ trie = NULL
  /\ table = <<>>
  /\ glen = 0
  /\ gt = <<>>

\* buf = get_troff_data(arg, &len); if(buf == NULL) goto done;
GetTroffData ==
  /\ pc = "start"
  /\ \E openOk \in BOOLEAN, env \in Envs :
       LET g == get_troff_data(backend, file, openOk, env)
       IN /\ mm' = g.mm
          /\ loc' = [loc EXCEPT !.buf = g.ptr, !.len = g.len]
          /\ map' = g.bytes
          /\ hist' = [hist EXCEPT !.env = <<openOk /\ env.fstat /\ env.mmap1
                                             /\ env.mmap2 /\ env.init>>,
                                  !.inflated = g.inflated,
                                  !.loaded = IF g.ptr = "NULL" THEN <<>>
                                             ELSE <<[bytes |-> g.bytes, len |-> g.len]>>]
          /\ pc' = IF g.ptr = "NULL" THEN "done" ELSE "loaded"
  /\ UNCHANGED <<off, line, dom, err, trie, table, charSigned, glen, gt, backend, file, ret>>

\* dom.trie = trofftrie(); if(dom.trie == NULL) goto done;
SessionTrie ==
  /\ pc = "loaded"
  /\ \E mem \in MemCases :
       LET b == <<table, charSigned, mem>>
       IN IF Built(b).err = "none"
          THEN trie' = b /\ pc' = "trie" /\ err' = "none"
          ELSE trie' = NULL /\ pc' = "done" /\ err' = Built(b).err
  /\ UNCHANGED <<map, off, line, dom, hist, table, charSigned, glen, gt, loadVars>>

\* page = render_troff(nc, buf, len, &dom); if(page == NULL) goto done;
RenderTroff ==
  /\ pc = "trie"
  /\ \E r \in troff_parse(map, dom, trie), planeOk \in BOOLEAN :
       /\ dom' = r.dom
       /\ err' = r.err
       /\ hist' = [hist EXCEPT !.parsed =
                     IF r.rc = "ok"
                     THEN <<[title |-> r.dom.title, section |-> r.dom.section]>>
                     ELSE <<>>]
       /\ loc' = [loc EXCEPT !.page = r.rc = "ok" /\ planeOk]
       /\ pc' = IF r.rc = "fault" THEN "fault"
                ELSE IF r.rc = "ok" /\ planeOk THEN "page" ELSE "done"
  /\ UNCHANGED <<map, off, line, trie, table, charSigned, glen, gt, backend, file, mm, ret>>

\* bar = create_bar(nc, &dom); if(bar == NULL) goto done;
CreateBar ==
  /\ pc = "page"
  /\ \E barOk \in BOOLEAN :
       /\ loc' = [loc EXCEPT !.bar = barOk]
       /\ pc' = IF barOk THEN "bar" ELSE "done"
  /\ UNCHANGED <<map, off, line, dom, err, hist, trie, table, charSigned, glen, gt,
                 backend, file, mm, ret>>

\* one round of the do-while: render, read a key.  'q' quits with ret = 0,
\* a failed render or a failed read leaves with ret = -1.
KeyLoop ==
  /\ pc = "bar"
  /\ \E renderOk \in BOOLEAN, key \in {"L", "q", "other", "error"} :
       IF ~renderOk THEN pc' = "done" /\ ret' = ret
       ELSE IF key = "q" THEN pc' = "done" /\ ret' = 0
       ELSE IF key = "error" THEN pc' = "done" /\ ret' = ret
       ELSE pc' = "bar" /\ ret' = ret
  /\ UNCHANGED <<map, off, line, dom, err, hist, trie, table, charSigned, glen, gt,
                 backend, file, mm, loc>>

\* done: the planes are destroyed, buf is unmapped when it is not NULL, and
\* the page's dom is destroyed; manloop returns ret.
Done ==
  /\ pc = "done"
  /\ mm' = IF loc.buf # "NULL" THEN Munmap(mm, loc.buf, loc.len) ELSE mm
  /\ loc' = [loc EXCEPT !.page = FALSE, !.bar = FALSE]
  /\ trie' = NULL
  /\ dom' = EmptyDom
  /\ pc' = "returned"
  /\ UNCHANGED <<map, off, line, err, hist, table, charSigned, glen, gt, backend, file, ret>>

NextLoad == GetTroffData \/ SessionTrie \/ RenderTroff \/ CreateBar \/ KeyLoop \/ Done

SpecLoad == InitLoad /\ [][NextLoad]_vars

\* ------------------------------------------------ properties of a session
MapIds == {"buf", "ubuf"}

\* with libdeflate every mapping is released exactly once
LibdeflateReleases ==
  backend = "libdeflate" =>
    /\ \A id \in MapIds : mm[id].unmaps <= mm[id].maps
    /\ pc = "returned" => \A id \in MapIds : mm[id].held = 0 /\ mm[id].unmaps = mm[id].maps

\* C2: in a session every mapping that is created is released exactly once
\* by the time manloop returns, on every exit path and with both
\* decompressors: no mapping is unmapped more often than it was mapped, and
\* at return none is held.
C2_ReleasedOnce ==
  /\ \A id \in MapIds : mm[id].unmaps <= mm[id].maps
  /\ pc = "returned" => \A id \in MapIds : mm[id].held = 0 /\ mm[id].unmaps = mm[id].maps

\* C4: when the file is the gzip form of a valid document d and no call of
\* the environment fails, the loader returns a buffer whose bytes and length
\* are those of d, and a parse of it that succeeds gives a title and a
\* section that parsing d gives; with both decompressors.
C4_GzipEquivalence ==
  \A d \in ValidDocs :
    (file = Gzip(d) /\ pc # "start" /\ hist.env = <<TRUE>>) =>
      /\ hist.inflated
      /\ hist.loaded = <<[bytes |-> d, len |-> Len(d)]>>
      /\ hist.parsed # <<>> =>
           \E r \in troff_parse(d, EmptyDom, StdBuild) :
             /\ r.rc = "ok"
             /\ hist.parsed = <<[title |-> r.dom.title, section |-> r.dom.section]>>

\* with libdeflate the gzip form of a document loads as the document
LibdeflateEquivalence == backend = "libdeflate" => C4_GzipEquivalence

====
